---- MODULE Spec2Model ----
(***************************************************************************)
(* Delivery workflow of the aerrand driver backend: the request handlers   *)
(* of controllers/deliveryController.js over the deliveries collection     *)
(* (models/Delivery.js), the drivers' delivery counter and the             *)
(* notification sink (services/NotificationService.js).                    *)
(*                                                                         *)
(* Every handler is an async function.  An `await` that reads or writes a  *)
(* delivery document is one atomic step of the store, and the steps of     *)
(* different requests interleave freely.  A request that has read and not  *)
(* yet written is a record in the bag `inflight`, its pc naming the await  *)
(* it is about to run.  Delivery ids are well-formed ObjectIds (request    *)
(* validation is not modelled); UnknownId is a well-formed id of no stored *)
(* delivery.                                                               *)
(***************************************************************************)
EXTENDS Naturals, FiniteSets, Bags, TLC

\* ---------------------------------------------------------------- bounds

MaxReq == 2            \* requests in flight at the same time
MaxBlobs == 2          \* photos uploaded to the blob store in one run
MaxDocBlobs == 3       \* documents uploaded to the blob store in one run
MaxCodes == 3          \* one-time codes created in one run

Drivers == {"d1", "d2"}
Deliveries == {"x1", "x2"}
UnknownId == "x0"
DeliveryIds == Deliveries \cup {UnknownId}
PhotoKinds == {"dropOff", "escrow"}

NoDriver == "null"     \* driverId: null (schema default)
Unset == 0             \* a Date field that is absent
NoBlob == 0            \* a photo or document record that is absent
NoDelivery == "null"   \* delivery: null in the response of getActiveDelivery

\* Statuses of the schema enum; a delivery is created upstream as upcoming
\* (the schema default) or pending.
Statuses == {"upcoming", "pending", "accepted", "in-transit", "completed", "cancelled"}
InitStatuses == {"upcoming", "pending"}

VARIABLES
    deliveries,        \* the deliveries collection: id -> document
    totalDeliveries,   \* drivers collection: driver -> lifetime counter
    inflight,          \* bag of requests between two awaits
    sink,              \* bag of events handed to NotificationService
    oks,               \* bag of success responses of accept/start/complete
    resp,              \* the response sent by the last step, or NoResp
    notify,            \* what the last step handed to the sink, and its fate
    blobs,             \* blob store: public ids of the blobs it holds
    nextBlob,          \* the public id the next upload is stored under
    destroyCalls,      \* the public ids the last step asked the store to destroy
    driver,            \* drivers collection: the record of the registrant
    token,             \* claims of the token the registrant's client presents
    held,              \* the tokens the registrant's client has received
    otps,              \* otps collection: the codes stored for the phone
    nextCode,          \* the number of the next code that is created
    confirmed          \* bag of the codes whose confirmation succeeded

vars == <<deliveries, totalDeliveries, inflight, sink, oks, resp, notify,
          blobs, nextBlob, destroyCalls, driver, token, held,
          otps, nextCode, confirmed>>

\* The registration workflow's part of the state, and the blob store.
regVars == <<driver, token, held>>
blobVars == <<blobs, nextBlob>>
otpVars == <<otps, nextCode, confirmed>>

NoResp == [op |-> "none", d |-> "-", x |-> "-", res |-> "-"]
Response(op, d, x, res) == [op |-> op, d |-> d, x |-> x, res |-> res]
Req(op, d, x, kind, pc) == [op |-> op, d |-> d, x |-> x, kind |-> kind, pc |-> pc]
Event(type, d, x, amount) == [type |-> type, userId |-> d, x |-> x, amount |-> amount]

\* What one step handed to NotificationService: the types of the events and
\* whether Notification.create rejected one of them.  Every call site wraps
\* the service in try/catch, so a rejection is logged and nothing else.
Dispatch(events, rejected) == [events |-> events, rejected |-> rejected]
Quiet == Dispatch({}, FALSE)

One(e) == SetToBag({e})
Pending(op, pc) == {r \in BagToSet(inflight) : r.op = op /\ r.pc = pc}

\* new Date(): the clock only moves forward, so the value written to a
\* document is later than every date the document already holds.
Max(a, b) == IF a >= b THEN a ELSE b
Now(doc) == 1 + Max(doc.acceptedAt, Max(doc.startedAt, doc.completedAt))

\* ------------------------------------------------- registration vocabulary

\* The registrant; of the five validDocTypes the two that are required.
Registrant == "r"
RequiredDocs == {"driversLicense", "profilePhoto"}
DocTypes == RequiredDocs
ProfileFields == {"name", "email", "earnType", "city"}

StepOrder ==
    <<"verified_phone", "basic_info_completed", "earn_type_completed",
      "documents_uploading", "completed">>
Steps == {StepOrder[i] : i \in 1..5}
NoStep == "-"          \* no registrationStep field, no step claim

\* jwt.sign payloads: the continuation token of verifyOtp carries the phone
\* only, the later ones carry the driver id and a step claim, the session
\* token carries the id and type 'driver'.
Token(id, step, type) == [id |-> id, step |-> step, type |-> type]
PhoneToken == Token(FALSE, "verified_phone", "-")
StepToken(step) == Token(TRUE, step, "-")
SessionToken == Token(TRUE, NoStep, "driver")
NoToken == Token(FALSE, NoStep, "none")      \* no Authorization header

\* stepOrder.indexOf, counted from 1; 0 stands for -1
StepIndex(s) == IF s \in Steps THEN CHOOSE i \in 1..5 : StepOrder[i] = s ELSE 0

\* ------------------------------------------------------- query predicates

\* Faulty variant: the pre-check forgets the in-transit status.
ActiveFilterAcceptedOnly(doc, d) == doc.driverId = d /\ doc.status = "accepted"

\* { driverId, status: { $in: ['accepted', 'in-transit'] } }
ActiveFilter(doc, d) ==
    doc.driverId = d /\ doc.status \in {"accepted", "in-transit"}

ExistingActiveDelivery(d) == \E x \in Deliveries : ActiveFilter(deliveries[x], d)

\* Faulty variant: the filter of the claim drops the status condition.
AcceptFilterNoStatus(doc) == doc.driverId = NoDriver

\* Faulty variant: the claim matches on the id alone.
AcceptFilterIdOnly(doc) == TRUE

\* { _id, status: 'upcoming', $or: [{driverId: null}, {driverId: {$exists: false}}] }
AcceptFilter(doc) == doc.status = "upcoming" /\ doc.driverId = NoDriver

\* Faulty variant: the claim does not write the driver id.
AcceptSetNoDriver(doc, d, t) ==
    [doc EXCEPT !.status = "accepted", !.acceptedAt = t]

\* { driverId, status: 'accepted', acceptedAt: new Date() }
AcceptSet(doc, d, t) ==
    [doc EXCEPT !.driverId = d, !.status = "accepted", !.acceptedAt = t]

\* Faulty variant: the start matches on id and owner alone.
StartFilterNoStatus(doc, d) == doc.driverId = d

\* { _id, driverId, status: 'accepted' }
StartFilter(doc, d) == doc.driverId = d /\ doc.status = "accepted"

\* Faulty variant: the start writes the wrong status literal.
StartSetWrongStatus(doc, t) == [doc EXCEPT !.status = "completed", !.startedAt = t]

StartSet(doc, t) == [doc EXCEPT !.status = "in-transit", !.startedAt = t]

\* Faulty variant: the completion also matches a delivery that was never started.
CompleteFilterAnyActive(doc, d) ==
    doc.driverId = d /\ doc.status \in {"accepted", "in-transit"}

\* { _id, driverId, status: 'in-transit' }
CompleteFilter(doc, d) == doc.driverId = d /\ doc.status = "in-transit"

\* Faulty variant: the completion stamps startedAt as well.
CompleteSetRestamps(doc, t) ==
    [doc EXCEPT !.status = "completed", !.completedAt = t, !.startedAt = t]

CompleteSet(doc, t) == [doc EXCEPT !.status = "completed", !.completedAt = t]

\* Faulty variant: the counter is incremented by two.
IncTotalTwice(total, d) == [total EXCEPT ![d] = @ + 2]

\* Driver.findByIdAndUpdate(driverId, { $inc: { totalDeliveries: 1 } })
IncTotal(total, d) == [total EXCEPT ![d] = @ + 1]

\* Delivery.find of getAvailableDeliveries: the status condition is commented
\* out, the filter is { $or: [{driverId: null}, {driverId: {$exists: false}}] }.
AvailableFilter(doc) == doc.driverId = NoDriver

\* delivery.price || delivery.estimatedEarning || 0  (estimatedEarning is no
\* path of the schema, so it is undefined on a loaded document)
Earning(doc) == IF doc.price # 0 THEN doc.price ELSE 0

\* findOne filter of the two photo uploads
PhotoFilter(doc, d, kind) ==
    /\ doc.driverId = d
    /\ IF kind = "dropOff" THEN doc.status = "in-transit"
                           ELSE doc.status \in {"accepted", "in-transit"}

\* delivery.save() after assigning photos[kind]: only the modified path is
\* written, to the document as it is stored at that moment.  A photo record
\* is modelled by its publicId, the blob it references.
PhotoSave(doc, kind, ref) ==
    IF kind = "dropOff" THEN [doc EXCEPT !.dropOff = ref]
                        ELSE [doc EXCEPT !.escrow = ref]

PhotoRef(doc, kind) == IF kind = "dropOff" THEN doc.dropOff ELSE doc.escrow

HasPhoto(doc, kind) == PhotoRef(doc, kind) # NoBlob

\* cloudinary.uploader.destroy(publicId) inside try/catch: the blob is
\* removed, or the call fails and the failure is only logged.
Destroy(store, ref, destroyed) == IF destroyed THEN store \ {ref} ELSE store

\* Faulty variant: the old blob is left alone.
DestroyCallNone(ref) == {}

\* The handlers call cloudinary.uploader.destroy only for a record that has
\* a publicId.
DestroyCall(ref) == IF ref = NoBlob THEN {} ELSE {ref}

Matches(x) == x \in Deliveries

\* ------------------------------------------------------------------- Init

\* The drivers collection holds no record of the registrant yet; a created
\* record has name and email, and the other fields follow step by step.
\* The documents are a sparse mapping from document type to record: a type
\* without a record maps to NoBlob.
\* `name` stands for name, firstName and lastName, which are written
\* together; a field is TRUE when it holds a truthy value.
NoRecord ==
    [exists |-> FALSE, name |-> FALSE, email |-> FALSE, earnType |-> FALSE,
     city |-> FALSE, registrationStep |-> NoStep, verified |-> FALSE,
     documents |-> [t \in DocTypes |-> NoBlob]]

NewDelivery(s, p) ==
    [status |-> s, driverId |-> NoDriver, price |-> p,
     acceptedAt |-> Unset, startedAt |-> Unset, completedAt |-> Unset,
     dropOff |-> NoBlob, escrow |-> NoBlob]

\* x1 is created upcoming with a price; x2 is free of charge and created
\* upcoming or pending.
InitialDeliveries ==
    {[x \in Deliveries |-> IF x = "x1" THEN NewDelivery("upcoming", 25)
                                        ELSE NewDelivery(s, 0)] : s \in InitStatuses}

Init ==
    /\ deliveries \in InitialDeliveries
    /\ totalDeliveries = [d \in Drivers |-> 0]
    /\ inflight = EmptyBag
    /\ sink = EmptyBag
    /\ oks = EmptyBag
    /\ resp = NoResp
    /\ notify = Quiet
    /\ blobs = {}
    /\ nextBlob = 1
    /\ destroyCalls = {}
    /\ driver = NoRecord
    /\ token = PhoneToken
    /\ held = {PhoneToken}
    /\ otps = {}
    /\ nextCode = 1
    /\ confirmed = EmptyBag

\* ---------------------------------------------------------------- helpers

CanBegin == BagCardinality(inflight) < MaxReq

Reply(op, d, x, res) == resp' = Response(op, d, x, res)

Ok(op, d, x) == oks' = oks (+) One([op |-> op, d |-> d, x |-> x])

\* NotificationService.createNotification: the event is handed to the sink,
\* which stores it or rejects it (Notification.create throws).
Emit(bag, type, d, x, amount) == bag (+) One(Event(type, d, x, amount))

\* ---------------------------------------------------------- acceptDelivery

\* The request arrives and awaits the pre-check findOne for an active
\* delivery of the caller.
AcceptCheck(d, x) ==
    /\ CanBegin
    /\ IF ExistingActiveDelivery(d)
       THEN /\ Reply("accept", d, x, "Conflict")
            /\ UNCHANGED inflight
       ELSE /\ inflight' = inflight (+) One(Req("accept", d, x, "-", "update"))
            /\ resp' = NoResp
    /\ notify' = Quiet
    /\ UNCHANGED <<deliveries, totalDeliveries, sink, oks, blobVars, regVars, otpVars>>
    /\ destroyCalls' = {}

\* findOneAndUpdate: the store matches the filter and applies the update in
\* one step, or matches nothing.
AcceptUpdate(r) ==
    /\ r \in Pending("accept", "update")
    /\ IF Matches(r.x) /\ AcceptFilter(deliveries[r.x])
       THEN /\ deliveries' = [deliveries EXCEPT ![r.x] = AcceptSet(@, r.d, Now(@))]
            /\ inflight' = (inflight (-) One(r)) (+) One([r EXCEPT !.pc = "inc"])
            /\ resp' = NoResp
       ELSE /\ inflight' = inflight (-) One(r)
            /\ Reply("accept", r.d, r.x, "NotAvailable")
            /\ UNCHANGED deliveries
    /\ notify' = Quiet
    /\ UNCHANGED <<totalDeliveries, sink, oks, blobVars, regVars, otpVars>>
    /\ destroyCalls' = {}

\* Driver.findByIdAndUpdate($inc totalDeliveries) is outside the inner try:
\* when it rejects, the outer catch answers 500 and no notification is sent.
\* notifyDeliveryAccepted is inside try/catch and nothing reads the sink, so
\* it runs in the same step: the response is a success whatever the sink
\* does with the event.
AcceptInc(r) ==
    /\ r \in Pending("accept", "inc")
    /\ inflight' = inflight (-) One(r)
    /\ \E written \in BOOLEAN, stored \in BOOLEAN :
         IF written
         THEN /\ totalDeliveries' = IncTotal(totalDeliveries, r.d)
              /\ sink' = Emit(sink, "delivery_accepted", r.d, r.x, 0)
              /\ notify' = Dispatch({"delivery_accepted"}, ~stored)
              /\ Reply("accept", r.d, r.x, "ok")
              /\ Ok("accept", r.d, r.x)
         ELSE /\ Reply("accept", r.d, r.x, "Error500")
              /\ notify' = Quiet
              /\ UNCHANGED <<totalDeliveries, sink, oks>>
    /\ UNCHANGED <<deliveries, blobVars, regVars, otpVars>>
    /\ destroyCalls' = {}

\* ----------------------------------------------------------- startDelivery

\* findOneAndUpdate is the first await of the handler; the notification
\* after it is inside try/catch.
StartDelivery(d, x) ==
    /\ IF Matches(x) /\ StartFilter(deliveries[x], d)
       THEN /\ deliveries' = [deliveries EXCEPT ![x] = StartSet(@, Now(@))]
            /\ sink' = Emit(sink, "delivery_started", d, x, 0)
            /\ \E stored \in BOOLEAN : notify' = Dispatch({"delivery_started"}, ~stored)
            /\ Reply("start", d, x, "ok")
            /\ Ok("start", d, x)
       ELSE /\ Reply("start", d, x, "InvalidTransition")
            /\ notify' = Quiet
            /\ UNCHANGED <<deliveries, sink, oks>>
    /\ UNCHANGED <<totalDeliveries, inflight, blobVars, regVars, otpVars>>
    /\ destroyCalls' = {}

\* -------------------------------------------------------- completeDelivery

\* notifyDeliveryCompleted and notifyPaymentSuccess share one try block: a
\* rejection of the first leaves the block, and the second is never called.
CompleteNotifications(bag, doc, d, x, completedStored) ==
    IF completedStored /\ Earning(doc) > 0
    THEN Emit(Emit(bag, "delivery_completed", d, x, Earning(doc)),
              "payment_success", d, x, Earning(doc))
    ELSE Emit(bag, "delivery_completed", d, x, Earning(doc))

\* The same two calls as seen by the sink: a rejected delivery_completed
\* ends the block, otherwise payment_success is stored or rejected in turn.
CompleteDispatch(doc, completedStored, paymentStored) ==
    IF completedStored /\ Earning(doc) > 0
    THEN Dispatch({"delivery_completed", "payment_success"}, ~paymentStored)
    ELSE Dispatch({"delivery_completed"}, ~completedStored)

CompleteDelivery(d, x) ==
    /\ IF Matches(x) /\ CompleteFilter(deliveries[x], d)
       THEN /\ deliveries' = [deliveries EXCEPT ![x] = CompleteSet(@, Now(@))]
            /\ \E completedStored \in BOOLEAN, paymentStored \in BOOLEAN :
                 /\ sink' = CompleteNotifications(sink, deliveries[x], d, x, completedStored)
                 /\ notify' = CompleteDispatch(deliveries[x], completedStored, paymentStored)
            /\ Reply("complete", d, x, "ok")
            /\ Ok("complete", d, x)
       ELSE /\ Reply("complete", d, x, "InvalidTransition")
            /\ notify' = Quiet
            /\ UNCHANGED <<deliveries, sink, oks>>
    /\ UNCHANGED <<totalDeliveries, inflight, blobVars, regVars, otpVars>>
    /\ destroyCalls' = {}

\* ---------------------------------------------------------------- queries

\* getAvailableDeliveries: the counting queries before the last find only
\* feed the debug part of the response; the list is the result of the last
\* find.  The handler reads and writes nothing else, so in the state after
\* the call AvailableDeliveries is the list that was returned.
AvailableDeliveries == {x \in Deliveries : AvailableFilter(deliveries[x])}

GetAvailableDeliveries(d) ==
    /\ Reply("available", d, "-", "ok")
    /\ notify' = Quiet
    /\ UNCHANGED <<deliveries, totalDeliveries, inflight, sink, oks, blobVars,
                 regVars, otpVars>>
    /\ destroyCalls' = {}

\* getActiveDelivery: findOne returns one of the matching documents, or null.
ActiveDeliveries(d) == {x \in Deliveries : ActiveFilter(deliveries[x], d)}

GetActiveDelivery(d) ==
    /\ \E x \in (IF ActiveDeliveries(d) = {} THEN {NoDelivery} ELSE ActiveDeliveries(d)) :
          Reply("active", d, x, "ok")
    /\ notify' = Quiet
    /\ UNCHANGED <<deliveries, totalDeliveries, inflight, sink, oks, blobVars,
                 regVars, otpVars>>
    /\ destroyCalls' = {}

\* ------------------------------------------------------------ photo uploads

\* A photo request between its findOne and its save: the document it read
\* holds the photo `old`, and multer stored the new file as `new`.
PhotoReq(op, d, x, kind, old, new) ==
    [op |-> op, d |-> d, x |-> x, kind |-> kind, pc |-> "save", old |-> old, new |-> new]

\* uploadDropOffPhoto / uploadEscrowPhoto.  The multer middleware sends the
\* file to the blob store before the handler runs; when that fails the error
\* handler answers and no handler code runs.  The handler then reads the
\* delivery with the status filter; without a match it removes the new blob
\* (best effort) and answers 404.
UploadPhotoFind(d, x, kind) ==
    /\ CanBegin
    /\ nextBlob <= MaxBlobs
    /\ \E uploaded \in BOOLEAN, destroyed \in BOOLEAN :
         IF ~uploaded
         THEN /\ Reply("upload", d, x, "UploadFailed")
              /\ destroyCalls' = {}
              /\ UNCHANGED <<inflight, blobs, nextBlob>>
         ELSE /\ nextBlob' = nextBlob + 1
              /\ IF Matches(x) /\ PhotoFilter(deliveries[x], d, kind)
                 THEN /\ inflight' = inflight (+)
                            One(PhotoReq("upload", d, x, kind,
                                         PhotoRef(deliveries[x], kind), nextBlob))
                      /\ blobs' = blobs \cup {nextBlob}
                      /\ destroyCalls' = {}
                      /\ resp' = NoResp
                 ELSE /\ Reply("upload", d, x, "InvalidState")
                      /\ blobs' = Destroy(blobs \cup {nextBlob}, nextBlob, destroyed)
                      /\ destroyCalls' = {nextBlob}
                      /\ UNCHANGED inflight
    /\ notify' = Quiet
    /\ UNCHANGED <<deliveries, totalDeliveries, sink, oks, regVars, otpVars>>

\* The rest of the handler: the old blob is destroyed (best effort), then
\* delivery.save() writes photos[kind].  When the save rejects, the outer
\* catch removes the new blob (best effort) and answers 500.  The
\* notification after the save has a type outside the schema enum, so the
\* sink rejects it; the rejection is caught.
UploadPhotoSave(r) ==
    /\ r \in Pending("upload", "save")
    /\ inflight' = inflight (-) One(r)
    /\ \E destroyed \in BOOLEAN, saved \in BOOLEAN, cleaned \in BOOLEAN :
         IF saved
         THEN /\ deliveries' = [deliveries EXCEPT ![r.x] = PhotoSave(@, r.kind, r.new)]
              /\ blobs' = Destroy(blobs, r.old, destroyed)
              /\ destroyCalls' = DestroyCall(r.old)
              /\ notify' = Dispatch({"delivery_photo_uploaded"}, TRUE)
              /\ Reply("upload", r.d, r.x, "ok")
         ELSE /\ blobs' = Destroy(Destroy(blobs, r.old, destroyed), r.new, cleaned)
              /\ destroyCalls' = DestroyCall(r.old) \cup {r.new}
              /\ notify' = Quiet
              /\ Reply("upload", r.d, r.x, "Error500")
              /\ UNCHANGED deliveries
    /\ UNCHANGED <<totalDeliveries, sink, oks, nextBlob, regVars, otpVars>>

\* deleteDeliveryPhoto: findOne { _id, driverId }, any status.
DeletePhotoFind(d, x, kind) ==
    /\ CanBegin
    /\ IF Matches(x) /\ deliveries[x].driverId = d /\ HasPhoto(deliveries[x], kind)
       THEN /\ inflight' = inflight (+)
                  One(PhotoReq("delete", d, x, kind, PhotoRef(deliveries[x], kind), NoBlob))
            /\ resp' = NoResp
       ELSE /\ Reply("delete", d, x, "NotFound")
            /\ UNCHANGED inflight
    /\ notify' = Quiet
    /\ UNCHANGED <<deliveries, totalDeliveries, sink, oks, blobVars, regVars, otpVars>>
    /\ destroyCalls' = {}

\* The blob is destroyed (best effort) and the record is removed.
DeletePhotoSave(r) ==
    /\ r \in Pending("delete", "save")
    /\ deliveries' = [deliveries EXCEPT ![r.x] = PhotoSave(@, r.kind, NoBlob)]
    /\ \E destroyed \in BOOLEAN : blobs' = Destroy(blobs, r.old, destroyed)
    /\ destroyCalls' = DestroyCall(r.old)
    /\ Reply("delete", r.d, r.x, "ok")
    /\ inflight' = inflight (-) One(r)
    /\ notify' = Quiet
    /\ UNCHANGED <<totalDeliveries, sink, oks, nextBlob, regVars, otpVars>>

\* ------------------------------------------------------------ registration

\* The handlers of the registration flow read the driver with findById or
\* findOne({ phone }) and write it back with save(); the registrant's client
\* sends one request at a time and presents the token it received last,
\* unless it goes back to one it received before: a continuation token is
\* valid for two hours, a session token for seven days.
\* The bag `sink` keeps the events of the delivery lifecycle; what a
\* registration handler hands to the sink, and whether the sink rejected it,
\* is told by `notify`.

\* Faulty variant: the stored step wins whenever the record has one.
GetCurrentRegistrationStepStoredFirst(rec, tokenStep) ==
    IF rec.registrationStep \in Steps THEN rec.registrationStep
    ELSE IF tokenStep \in Steps THEN tokenStep
    ELSE "verified_phone"

\* getCurrentRegistrationStep: the later of the stored step and the step
\* claim of the token.
GetCurrentRegistrationStep(rec, tokenStep) ==
    LET currentIndex == Max(StepIndex(rec.registrationStep), StepIndex(tokenStep))
    IN IF currentIndex >= 1 THEN StepOrder[currentIndex] ELSE "verified_phone"

\* The e-mail a client submits: the one its record holds, one that no driver
\* holds, or one that another driver of the collection holds.
SubmittedEmails(rec) ==
    IF rec.exists /\ rec.email THEN {"stored", "fresh", "taken"} ELSE {"fresh", "taken"}

\* completeRegistration (CompleteBasicInfo).  Only a token with an id
\* resolves the stored record (findById), which is then left out of the
\* e-mail check and updated in place.  With the phone-only token the e-mail
\* check looks at every driver, and Driver.create follows: for a phone that
\* has a record the insert hits the unique phone.
CompleteRegistration(valid) ==
    /\ \E email \in SubmittedEmails(driver) :
         LET existingDriver == token.id /\ driver.exists
             existingEmail == email = "taken" \/ (email = "stored" /\ ~existingDriver)
         IN IF ~valid
            THEN /\ Reply("completeRegistration", Registrant, "-", "InvalidInput")
                 /\ notify' = Quiet
                 /\ UNCHANGED regVars
            ELSE IF token = NoToken
            THEN /\ Reply("completeRegistration", Registrant, email, "Unauthorized")
                 /\ notify' = Quiet
                 /\ UNCHANGED regVars
            ELSE IF existingEmail
            THEN /\ Reply("completeRegistration", Registrant, email, "Conflict")
                 /\ notify' = Quiet
                 /\ UNCHANGED regVars
            ELSE IF driver.exists /\ ~existingDriver
            THEN /\ Reply("completeRegistration", Registrant, email, "Error500")
                 /\ notify' = Quiet
                 /\ UNCHANGED regVars
            ELSE /\ driver' = [(IF driver.exists THEN driver ELSE NoRecord) EXCEPT
                                  !.exists = TRUE, !.name = TRUE, !.email = TRUE,
                                  !.registrationStep = "basic_info_completed"]
                 /\ token' = StepToken("basic_info_completed") /\ held' = held \cup {token'}
                 /\ \E stored \in BOOLEAN : notify' = Dispatch({"profile_updated"}, ~stored)
                 /\ Reply("completeRegistration", Registrant, email, "ok")
    /\ UNCHANGED <<deliveries, totalDeliveries, inflight, sink, oks, blobVars, otpVars>>
    /\ destroyCalls' = {}

\* The bodies of setupEarnType: an earn type of the list, one outside it or
\* none, and a city or none.
ValidEarnTypes == {"car", "scooter", "bicycle", "truck"}
EarnTypeInputs == ValidEarnTypes \cup {"plane", ""}
CityInputs == {"Lagos", ""}

\* Faulty variant: the earn type is not looked up in the list.
ValidEarnInputAnyType(earnType, city) == earnType # "" /\ city # ""

\* setupEarnType, "Validate inputs" and "Validate earn type"
ValidEarnInput(earnType, city) ==
    earnType # "" /\ city # "" /\ earnType \in ValidEarnTypes

\* setupEarnType
SetupEarnType(earnType, city) ==
    /\ IF ~ValidEarnInput(earnType, city)
       THEN /\ Reply("setupEarnType", Registrant, "-", "InvalidInput")
            /\ notify' = Quiet
            /\ UNCHANGED regVars
       ELSE IF ~driver.exists
       THEN /\ Reply("setupEarnType", Registrant, "-", "NotFound")
            /\ notify' = Quiet
            /\ UNCHANGED regVars
       ELSE /\ driver' = [driver EXCEPT !.earnType = TRUE, !.city = TRUE,
                                        !.registrationStep = "earn_type_completed"]
            /\ token' = StepToken("earn_type_completed") /\ held' = held \cup {token'}
            /\ \E stored \in BOOLEAN : notify' = Dispatch({"profile_updated"}, ~stored)
            /\ Reply("setupEarnType", Registrant, "-", "ok")
    /\ UNCHANGED <<deliveries, totalDeliveries, inflight, sink, oks, blobVars, otpVars>>
    /\ destroyCalls' = {}

\* Faulty variant: the step is set whatever the current step is.
UploadStepAlways(rec, tokenStep) == "documents_uploading"

\* The step uploadDocument stores: documents_uploading when the current
\* step is one of the first three, the stored step otherwise.
UploadStep(rec, tokenStep) ==
    IF GetCurrentRegistrationStep(rec, tokenStep) \in
          {"verified_phone", "basic_info_completed", "earn_type_completed"}
    THEN "documents_uploading"
    ELSE rec.registrationStep

\* uploadDocument.  The multer middleware stores the file first; its failure
\* is answered by handleMulterError.  The handler destroys the old blob of
\* the type (best effort) before it sets the new record and saves; when the
\* save rejects, the catch block removes the new blob (best effort).  The
\* only call of notifyDocumentUploaded is in that catch block and reads a
\* variable that is not in scope there, so nothing reaches the sink.
UploadDocument(t) ==
    /\ nextBlob <= MaxDocBlobs
    /\ \E uploaded \in BOOLEAN, destroyed \in BOOLEAN, saved \in BOOLEAN, cleaned \in BOOLEAN :
         IF ~uploaded
         THEN /\ Reply("uploadDocument", Registrant, t, "UploadFailed")
              /\ destroyCalls' = {}
              /\ UNCHANGED <<regVars, blobVars>>
         ELSE /\ nextBlob' = nextBlob + 1
              /\ IF ~driver.exists
                 THEN /\ Reply("uploadDocument", Registrant, t, "NotFound")
                      /\ blobs' = blobs \cup {nextBlob}
                      /\ destroyCalls' = {}
                      /\ UNCHANGED regVars
                 ELSE IF saved
                 THEN /\ driver' = [driver EXCEPT
                                       !.documents[t] = nextBlob,
                                       !.registrationStep = UploadStep(driver, token.step)]
                      /\ blobs' = Destroy(blobs \cup {nextBlob}, driver.documents[t], destroyed)
                      /\ destroyCalls' = DestroyCall(driver.documents[t])
                      /\ token' = StepToken("documents_uploading") /\ held' = held \cup {token'}
                      /\ Reply("uploadDocument", Registrant, t, "ok")
                 ELSE /\ blobs' = Destroy(Destroy(blobs \cup {nextBlob},
                                                  driver.documents[t], destroyed),
                                          nextBlob, cleaned)
                      /\ destroyCalls' = DestroyCall(driver.documents[t]) \cup {nextBlob}
                      /\ Reply("uploadDocument", Registrant, t, "Error500")
                      /\ UNCHANGED regVars
    /\ notify' = Quiet
    /\ UNCHANGED <<deliveries, totalDeliveries, inflight, sink, oks, otpVars>>

\* uploadDocument when other requests for the same driver are on their way:
\* the handler reads the driver, and what it saves later are the paths it
\* has modified on the document it read.  The request between the two
\* holds the new blob and the step it assigned, NoStep when it assigned none.
DocReq(t, old, new, step) ==
    [op |-> "uploadDocument", d |-> Registrant, x |-> t, kind |-> step, pc |-> "save",
     old |-> old, new |-> new]

\* The assignment to driver.registrationStep on the document that was read.
AssignedStep(rec, tokenStep) ==
    IF UploadStep(rec, tokenStep) = rec.registrationStep THEN NoStep
    ELSE UploadStep(rec, tokenStep)

\* uploadDocument up to driver.save(): the multer middleware, findById and
\* the destroy of the old blob.
UploadDocumentFind(t) ==
    /\ CanBegin
    /\ nextBlob <= MaxDocBlobs
    /\ \E uploaded \in BOOLEAN, destroyed \in BOOLEAN :
         IF ~uploaded
         THEN /\ Reply("uploadDocument", Registrant, t, "UploadFailed")
              /\ destroyCalls' = {}
              /\ UNCHANGED <<inflight, blobVars>>
         ELSE /\ nextBlob' = nextBlob + 1
              /\ IF ~driver.exists
                 THEN /\ Reply("uploadDocument", Registrant, t, "NotFound")
                      /\ blobs' = blobs \cup {nextBlob}
                      /\ destroyCalls' = {}
                      /\ UNCHANGED inflight
                 ELSE /\ inflight' = inflight (+)
                            One(DocReq(t, driver.documents[t], nextBlob,
                                       AssignedStep(driver, token.step)))
                      /\ blobs' = Destroy(blobs \cup {nextBlob}, driver.documents[t], destroyed)
                      /\ destroyCalls' = DestroyCall(driver.documents[t])
                      /\ resp' = NoResp
    /\ notify' = Quiet
    /\ UNCHANGED <<deliveries, totalDeliveries, sink, oks, regVars, otpVars>>

\* driver.save() and the rest: the record of the type and the assigned step
\* are written to the driver as it is stored now.
UploadDocumentSave(r) ==
    /\ r \in Pending("uploadDocument", "save")
    /\ inflight' = inflight (-) One(r)
    /\ \E saved \in BOOLEAN, cleaned \in BOOLEAN :
         IF saved
         THEN /\ driver' = [driver EXCEPT
                               !.documents[r.x] = r.new,
                               !.registrationStep = IF r.kind = NoStep THEN @ ELSE r.kind]
              /\ token' = StepToken("documents_uploading") /\ held' = held \cup {token'}
              /\ destroyCalls' = {}
              /\ Reply("uploadDocument", Registrant, r.x, "ok")
              /\ UNCHANGED blobs
         ELSE /\ blobs' = Destroy(blobs, r.new, cleaned)
              /\ destroyCalls' = {r.new}
              /\ Reply("uploadDocument", Registrant, r.x, "Error500")
              /\ UNCHANGED regVars
    /\ notify' = Quiet
    /\ UNCHANGED <<deliveries, totalDeliveries, sink, oks, nextBlob, otpVars>>

\* getNextAllowedActions: the list is built from the fields of the driver
\* alone; its second argument is not read.
GetNextAllowedActions(rec) ==
    (IF ~rec.name \/ ~rec.email THEN {"complete_basic_info"} ELSE {})
    \cup (IF ~rec.earnType \/ ~rec.city THEN {"setup_earn_type"} ELSE {})
    \cup (IF \A t \in DocTypes : rec.documents[t] = NoBlob
          THEN {"upload_documents"} ELSE {})
    \cup (IF (\A t \in RequiredDocs : rec.documents[t] # NoBlob)
              /\ rec.earnType /\ rec.city /\ rec.name
          THEN {"complete_registration"} ELSE {})

\* The checks of completeFullRegistration: the requirements that are not met.
MissingDocs(rec) == {t \in RequiredDocs : rec.documents[t] = NoBlob}

\* Faulty variant: the city is not checked.
FinalizeErrorsNoCity(rec) ==
    (IF rec.name /\ rec.email THEN {} ELSE {"basic information"})
    \cup (IF rec.earnType THEN {} ELSE {"earn type and city"})
    \cup (IF MissingDocs(rec) = {} THEN {} ELSE {"required documents"})

FinalizeErrors(rec) ==
    (IF rec.name /\ rec.email THEN {} ELSE {"basic information"})
    \cup (IF rec.earnType /\ rec.city THEN {} ELSE {"earn type and city"})
    \cup (IF MissingDocs(rec) = {} THEN {} ELSE {"required documents"})

\* notifyRegistrationCompleted and notifyVerificationApproved share one try
\* block.
FinalizeDispatch(completedStored, approvedStored) ==
    IF completedStored
    THEN Dispatch({"registration_completed", "verification_approved"}, ~approvedStored)
    ELSE Dispatch({"registration_completed"}, TRUE)

\* Faulty variant: a rejection by the sink reaches the outer catch block.
FinalizeResultEscalates(dispatch) == IF dispatch.rejected THEN "Error500" ELSE "ok"

\* The catch block around the two notifications logs the rejection, and the
\* handler goes on to res.json with success: true.
FinalizeResult(dispatch) == "ok"

\* completeFullRegistration (FinalizeRegistration)
CompleteFullRegistration ==
    /\ IF ~driver.exists
       THEN /\ Reply("completeFullRegistration", Registrant, "-", "NotFound")
            /\ notify' = Quiet
            /\ UNCHANGED regVars
       ELSE IF FinalizeErrors(driver) # {}
       THEN /\ Reply("completeFullRegistration", Registrant, "-", "IncompletePrerequisites")
            /\ notify' = Quiet
            /\ UNCHANGED regVars
       ELSE /\ driver' = [driver EXCEPT !.verified = TRUE, !.registrationStep = "completed"]
            /\ token' = SessionToken /\ held' = held \cup {token'}
            /\ \E completedStored \in BOOLEAN, approvedStored \in BOOLEAN :
                 notify' = FinalizeDispatch(completedStored, approvedStored)
            /\ Reply("completeFullRegistration", Registrant, "-", FinalizeResult(notify'))
    /\ UNCHANGED <<deliveries, totalDeliveries, inflight, sink, oks, blobVars, otpVars>>
    /\ destroyCalls' = {}

\* getRegistrationStatus: driver.registrationStep || decoded.step || 'verified_phone'
StatusStep(rec, tokenStep) ==
    IF rec.registrationStep # NoStep THEN rec.registrationStep
    ELSE IF tokenStep # NoStep THEN tokenStep
    ELSE "verified_phone"

\* getRegistrationStatus, "Calculate progress dynamically": 20 for each of
\* the five checks that passes.  The token or the record always has the
\* phone; the last check passes for a verified driver and for one who has
\* both required documents, earn type, city and name.
Progress(rec) ==
    LET checks == <<TRUE,
                    rec.name /\ rec.email,
                    rec.earnType /\ rec.city,
                    \E t \in DocTypes : rec.documents[t] # NoBlob,
                    rec.verified \/ (MissingDocs(rec) = {} /\ rec.earnType
                                                          /\ rec.city /\ rec.name)>>
        progress == 20 * Cardinality({i \in 1..5 : checks[i]})
    IN IF progress <= 100 THEN progress ELSE 100

\* The response carries StatusStep and Progress of the record it read.
GetRegistrationStatus ==
    /\ IF driver.exists
       THEN Reply("getRegistrationStatus", Registrant, StatusStep(driver, token.step), "ok")
       ELSE Reply("getRegistrationStatus", Registrant, "-", "NotFound")
    /\ notify' = Quiet
    /\ UNCHANGED <<deliveries, totalDeliveries, inflight, sink, oks, blobVars,
                 regVars, otpVars>>
    /\ destroyCalls' = {}

\* Faulty variant: the record is removed only when the blob store has
\* destroyed the blob.
DeleteDocumentNeedsDestroy(t) ==
    /\ IF driver.exists /\ driver.documents[t] # NoBlob
       THEN \E destroyed \in BOOLEAN :
              /\ blobs' = Destroy(blobs, driver.documents[t], destroyed)
              /\ destroyCalls' = DestroyCall(driver.documents[t])
              /\ IF destroyed
                 THEN /\ driver' = [driver EXCEPT !.documents[t] = NoBlob]
                      /\ Reply("deleteDocument", Registrant, t, "ok")
                 ELSE /\ Reply("deleteDocument", Registrant, t, "Error500")
                      /\ UNCHANGED driver
       ELSE /\ Reply("deleteDocument", Registrant, t, "NotFound")
            /\ destroyCalls' = {}
            /\ UNCHANGED <<driver, blobs>>
    /\ notify' = Quiet
    /\ UNCHANGED <<deliveries, totalDeliveries, inflight, sink, oks, nextBlob,
                 token, held, otpVars>>

\* deleteDocument: the blob is destroyed (best effort) and the record of the
\* type is removed.
DeleteDocument(t) ==
    /\ IF driver.exists /\ driver.documents[t] # NoBlob
       THEN /\ driver' = [driver EXCEPT !.documents[t] = NoBlob]
            /\ \E destroyed \in BOOLEAN :
                 blobs' = Destroy(blobs, driver.documents[t], destroyed)
            /\ destroyCalls' = DestroyCall(driver.documents[t])
            /\ Reply("deleteDocument", Registrant, t, "ok")
       ELSE /\ Reply("deleteDocument", Registrant, t, "NotFound")
            /\ destroyCalls' = {}
            /\ UNCHANGED <<driver, blobs>>
    /\ notify' = Quiet
    /\ UNCHANGED <<deliveries, totalDeliveries, inflight, sink, oks, nextBlob,
                 token, held, otpVars>>

\* login: e-mail and password of a stored driver give a session token,
\* whatever the registration step; a verified driver gets a notification.
Login(valid) ==
    /\ IF valid /\ driver.exists /\ driver.email
       THEN /\ token' = SessionToken /\ held' = held \cup {token'}
            /\ IF driver.verified
               THEN \E stored \in BOOLEAN : notify' = Dispatch({"general"}, ~stored)
               ELSE notify' = Quiet
            /\ Reply("login", Registrant, "-", "ok")
       ELSE /\ Reply("login", Registrant, "-", "InvalidCredentials")
            /\ notify' = Quiet
            /\ UNCHANGED <<token, held>>
    /\ UNCHANGED <<deliveries, totalDeliveries, inflight, sink, oks, blobVars, driver, otpVars>>
    /\ destroyCalls' = {}

\* The auth middleware of the protected routes: a token with an id and
\* type 'driver' whose driver is stored.
Authenticated == token.id /\ token.type = "driver" /\ driver.exists

\* verifyIdentity: Driver.findByIdAndUpdate(id, { verified: true })
VerifyIdentity ==
    /\ IF Authenticated
       THEN /\ driver' = [driver EXCEPT !.verified = TRUE]
            /\ \E stored \in BOOLEAN : notify' = Dispatch({"verification_approved"}, ~stored)
            /\ Reply("verifyIdentity", Registrant, "-", "ok")
       ELSE /\ Reply("verifyIdentity", Registrant, "-", "Unauthorized")
            /\ notify' = Quiet
            /\ UNCHANGED driver
    /\ UNCHANGED <<deliveries, totalDeliveries, inflight, sink, oks, blobVars,
                 token, held, otpVars>>
    /\ destroyCalls' = {}

\* updateProfile: Driver.findByIdAndUpdate(id, req.body); the bodies of the
\* model blank one profile field.
UpdateProfile(field) ==
    /\ IF Authenticated
       THEN /\ driver' = [driver EXCEPT ![field] = FALSE]
            /\ \E stored \in BOOLEAN : notify' = Dispatch({"profile_updated"}, ~stored)
            /\ Reply("updateProfile", Registrant, field, "ok")
       ELSE /\ Reply("updateProfile", Registrant, field, "Unauthorized")
            /\ notify' = Quiet
            /\ UNCHANGED driver
    /\ UNCHANGED <<deliveries, totalDeliveries, inflight, sink, oks, blobVars,
                 token, held, otpVars>>
    /\ destroyCalls' = {}

\* ------------------------------------------------------- one-time codes

\* All codes have the value generateOTP returns; a stored code is told from
\* the others by the number of its creation.
OtpReq(op, pc, code) ==
    [op |-> op, d |-> Registrant, x |-> "-", kind |-> "-", pc |-> pc, code |-> code]
NoCode == 0
Otp(n) == [id |-> n, expired |-> FALSE]

\* The codes a run still creates, counted with the requests on their way.
IssueRequests == {r \in BagToSet(inflight) : r.op \in {"registerPhone", "resendOtp"}}
CanIssue ==
    /\ CanBegin
    /\ nextCode + BagCardinality([r \in IssueRequests |-> CopiesIn(r, inflight)]) <= MaxCodes

\* registerPhone (InitiatePhoneVerification): Driver.findOne({ phone })
RegisterPhoneCheck ==
    /\ CanIssue
    /\ IF driver.exists
       THEN /\ Reply("registerPhone", Registrant, "-", "Conflict")
            /\ UNCHANGED inflight
       ELSE /\ inflight' = inflight (+) One(OtpReq("registerPhone", "delete", NoCode))
            /\ resp' = NoResp
    /\ notify' = Quiet
    /\ destroyCalls' = {}
    /\ UNCHANGED <<deliveries, totalDeliveries, sink, oks, blobVars, regVars, otpVars>>

\* registerPhone: Otp.deleteMany({ phone })
RegisterPhoneDelete(r) ==
    /\ r \in Pending("registerPhone", "delete")
    /\ otps' = {}
    /\ inflight' = (inflight (-) One(r)) (+) One([r EXCEPT !.pc = "create"])
    /\ resp' = NoResp
    /\ notify' = Quiet
    /\ destroyCalls' = {}
    /\ UNCHANGED <<deliveries, totalDeliveries, sink, oks, blobVars, regVars,
                   nextCode, confirmed>>

\* resendOtp: no look at the drivers; Otp.deleteMany is its first await.
ResendOtpDelete ==
    /\ CanIssue
    /\ otps' = {}
    /\ inflight' = inflight (+) One(OtpReq("resendOtp", "create", NoCode))
    /\ resp' = NoResp
    /\ notify' = Quiet
    /\ destroyCalls' = {}
    /\ UNCHANGED <<deliveries, totalDeliveries, sink, oks, blobVars, regVars,
                   nextCode, confirmed>>

\* registerPhone and resendOtp: Otp.create, then the response.
OtpCreate(r) ==
    /\ r \in Pending("registerPhone", "create") \cup Pending("resendOtp", "create")
    /\ otps' = otps \cup {Otp(nextCode)}
    /\ nextCode' = nextCode + 1
    /\ inflight' = inflight (-) One(r)
    /\ Reply(r.op, Registrant, "-", "ok")
    /\ notify' = Quiet
    /\ destroyCalls' = {}
    /\ UNCHANGED <<deliveries, totalDeliveries, sink, oks, blobVars, regVars, confirmed>>

\* verifyOtp (ConfirmPhoneVerification): Otp.findOne({ phone, code, type })
\* returns one of the stored codes when the submitted code is the right
\* one; an expired one is refused.
VerifyOtpFind(right) ==
    /\ CanBegin
    /\ IF right /\ otps # {}
       THEN \E otpRecord \in otps :
              IF otpRecord.expired
              THEN /\ Reply("verifyOtp", Registrant, "-", "InvalidCode")
                   /\ UNCHANGED inflight
              ELSE /\ inflight' = inflight (+) One(OtpReq("verifyOtp", "delete", otpRecord.id))
                   /\ resp' = NoResp
       ELSE /\ Reply("verifyOtp", Registrant, "-", "InvalidCode")
            /\ UNCHANGED inflight
    /\ notify' = Quiet
    /\ destroyCalls' = {}
    /\ UNCHANGED <<deliveries, totalDeliveries, sink, oks, blobVars, regVars, otpVars>>

\* verifyOtp: the token is signed, Otp.deleteMany({ phone, type }) removes
\* the codes of the phone, and the response carries the token.
VerifyOtpDelete(r) ==
    /\ r \in Pending("verifyOtp", "delete")
    /\ otps' = {}
    /\ confirmed' = confirmed (+) One(r.code)
    /\ token' = PhoneToken /\ held' = held \cup {token'}
    /\ inflight' = inflight (-) One(r)
    /\ Reply("verifyOtp", Registrant, "-", "ok")
    /\ notify' = Quiet
    /\ destroyCalls' = {}
    /\ UNCHANGED <<deliveries, totalDeliveries, sink, oks, blobVars, driver, nextCode>>

\* Five minutes after its creation a code is expired, and the TTL index on
\* expiresAt lets the store remove it some time later.
Expire(c) ==
    /\ c \in otps /\ ~c.expired
    /\ otps' = (otps \ {c}) \cup {[c EXCEPT !.expired = TRUE]}
    /\ resp' = NoResp
    /\ notify' = Quiet
    /\ destroyCalls' = {}
    /\ UNCHANGED <<deliveries, totalDeliveries, inflight, sink, oks, blobVars, regVars,
                   nextCode, confirmed>>

TtlRemove(c) ==
    /\ c \in otps /\ c.expired
    /\ otps' = otps \ {c}
    /\ resp' = NoResp
    /\ notify' = Quiet
    /\ destroyCalls' = {}
    /\ UNCHANGED <<deliveries, totalDeliveries, inflight, sink, oks, blobVars, regVars,
                   nextCode, confirmed>>

\* The client goes back to a token it received before.  No request is sent.
PresentToken(t) ==
    /\ t \in held /\ t # token
    /\ token' = t
    /\ resp' = NoResp
    /\ notify' = Quiet
    /\ UNCHANGED <<deliveries, totalDeliveries, inflight, sink, oks, blobVars,
                 driver, held, otpVars>>
    /\ destroyCalls' = {}

\* ------------------------------------------------- the step function alone

\* The values getCurrentRegistrationStep is called with: a step of the
\* order, no value (undefined or the empty string), a string of no step.
StepInputs == Steps \cup {NoStep, "", "unknown_step"}

\* One call of getCurrentRegistrationStep(driver, decoded.step); the
\* response carries the value it returned.
EvaluateStep ==
    /\ resp = NoResp
    /\ Reply("getCurrentRegistrationStep", Registrant,
             GetCurrentRegistrationStep(driver, token.step), "ok")
    /\ notify' = Quiet
    /\ destroyCalls' = {}
    /\ UNCHANGED <<deliveries, totalDeliveries, inflight, sink, oks, blobVars,
                   regVars, otpVars>>

\* ---------------------------------------------------- the auth middleware

\* The delivery routes are mounted behind the auth middleware, and each of
\* them names it once more.  The registrant's record has the id AuthDriver.
\* A token that is malformed or expired makes jwt.verify throw.
AuthDriver == "d1"
ExpiredToken == Token(TRUE, NoStep, "invalid")
PresentedTokens == held \cup {NoToken, ExpiredToken}

\* The operations behind the middleware, and the values of :deliveryId of
\* the requests: the id of a delivery and the word that makes the path of
\* the complete route /register/complete.
AuthOps == {"available", "active", "accept", "start", "complete", "history", "upload"}
RegisterSegment == "register"
AuthIds == {"x1", RegisterSegment}

\* The parameters of the route of an operation: the three lists have no
\* :deliveryId, and only the photo upload has a photo kind.
AuthTargets(op) == IF op \in {"available", "active", "history"} THEN {"-"} ELSE AuthIds
AuthKinds(op) == IF op = "upload" THEN PhotoKinds ELSE {"-"}

\* req.path of the request, as far as the middleware looks at it
ExemptPath(op, x) == op = "complete" /\ x = RegisterSegment

\* authMiddleware: "next" when the request goes on to the handler
AuthMiddleware(tok, rec, op, x) ==
    IF tok.type \in {"none", "invalid"} THEN "Unauthorized"
    ELSE IF ExemptPath(op, x) /\ tok.step = "verified_phone" THEN "next"
    ELSE IF ~tok.id \/ tok.type # "driver" THEN "Unauthorized"
    ELSE IF ~rec.exists THEN "Unauthorized"
    ELSE "next"

\* getDriverDeliveryHistory: a find and a count of the caller's deliveries
GetDriverDeliveryHistory(d) ==
    /\ Reply("history", d, "-", "ok")
    /\ notify' = Quiet
    /\ UNCHANGED <<deliveries, totalDeliveries, inflight, sink, oks, blobVars,
                 regVars, otpVars>>
    /\ destroyCalls' = {}

\* The handler behind the middleware.
DeliveryHandler(op, x, kind) ==
    CASE op = "available" -> GetAvailableDeliveries(AuthDriver)
      [] op = "active" -> GetActiveDelivery(AuthDriver)
      [] op = "accept" -> AcceptCheck(AuthDriver, x)
      [] op = "start" -> StartDelivery(AuthDriver, x)
      [] op = "complete" -> CompleteDelivery(AuthDriver, x)
      [] op = "history" -> GetDriverDeliveryHistory(AuthDriver)
      [] op = "upload" -> UploadPhotoFind(AuthDriver, x, kind)

\* A request to a delivery route with the token tok.  The middleware answers
\* 401 or lets the request through.  A request that got through without an
\* id in its token has no req.driver either: the handler's first statement,
\* req.user.id || req.driver._id, throws, and its catch block answers 500.
DeliveryRequest(tok, op, x, kind) ==
    IF AuthMiddleware(tok, driver, op, x) = "next" /\ tok.id
    THEN DeliveryHandler(op, x, kind)
    ELSE /\ Reply(op, AuthDriver, x,
                  IF AuthMiddleware(tok, driver, op, x) = "next"
                  THEN "Error500" ELSE "Unauthorized")
         /\ notify' = Quiet
         /\ destroyCalls' = {}
         /\ UNCHANGED <<deliveries, totalDeliveries, inflight, sink, oks, blobVars,
                        regVars, otpVars>>

\* The record of the driver is removed from the collection, by an
\* administrator; the tokens that were signed for it stay valid.
RemoveDriver ==
    /\ driver.exists
    /\ driver' = NoRecord
    /\ resp' = NoResp
    /\ notify' = Quiet
    /\ destroyCalls' = {}
    /\ UNCHANGED <<deliveries, totalDeliveries, inflight, sink, oks, blobVars,
                   token, held, otpVars>>

\* ------------------------------------------------------------------- Next

\* The delivery lifecycle: two drivers, two deliveries and an unknown id.
Next ==
    \/ \E d \in Drivers, x \in DeliveryIds : AcceptCheck(d, x)
    \/ \E r \in BagToSet(inflight) : AcceptUpdate(r)
    \/ \E r \in BagToSet(inflight) : AcceptInc(r)
    \/ \E d \in Drivers, x \in DeliveryIds : StartDelivery(d, x)
    \/ \E d \in Drivers, x \in DeliveryIds : CompleteDelivery(d, x)
    \/ \E d \in Drivers : GetAvailableDeliveries(d)
    \/ \E d \in Drivers : GetActiveDelivery(d)

Spec == Init /\ [][Next]_vars

\* The lifecycle together with the photo handlers, on one delivery.
PhotoIds == {"x1", UnknownId}

NextPhoto ==
    \/ \E d \in Drivers, x \in PhotoIds : AcceptCheck(d, x)
    \/ \E r \in BagToSet(inflight) : AcceptUpdate(r)
    \/ \E r \in BagToSet(inflight) : AcceptInc(r)
    \/ \E d \in Drivers, x \in PhotoIds : StartDelivery(d, x)
    \/ \E d \in Drivers, x \in PhotoIds : CompleteDelivery(d, x)
    \/ \E d \in Drivers, x \in PhotoIds, k \in PhotoKinds : UploadPhotoFind(d, x, k)
    \/ \E r \in BagToSet(inflight) : UploadPhotoSave(r)
    \/ \E d \in Drivers, x \in PhotoIds, k \in PhotoKinds : DeletePhotoFind(d, x, k)
    \/ \E r \in BagToSet(inflight) : DeletePhotoSave(r)

SpecPhoto == Init /\ [][NextPhoto]_vars

\* The registration workflow of one driver.
NextReg ==
    \/ \E valid \in BOOLEAN : CompleteRegistration(valid)
    \/ \E earnType \in EarnTypeInputs, city \in CityInputs : SetupEarnType(earnType, city)
    \/ \E t \in DocTypes : UploadDocument(t)
    \/ CompleteFullRegistration
    \/ GetRegistrationStatus
    \/ \E t \in DocTypes : DeleteDocument(t)
    \/ \E valid \in BOOLEAN : Login(valid)
    \/ VerifyIdentity
    \/ \E field \in ProfileFields : UpdateProfile(field)

\* The deliveries play no part in it: they are all created upcoming.
InitReg == Init /\ \A x \in Deliveries : deliveries[x].status = "upcoming"

SpecReg == InitReg /\ [][NextReg]_vars

\* The registration steps of a client that presents any token it has
\* received.
NextTok ==
    \/ \E valid \in BOOLEAN : CompleteRegistration(valid)
    \/ \E earnType \in EarnTypeInputs, city \in CityInputs : SetupEarnType(earnType, city)
    \/ \E t \in DocTypes : UploadDocument(t)
    \/ CompleteFullRegistration
    \/ GetRegistrationStatus
    \/ \E t \in DocTypes : DeleteDocument(t)
    \/ \E t \in held : PresentToken(t)

SpecTok == InitReg /\ [][NextTok]_vars

\* One driver works on one delivery while the registrant goes through the
\* registration steps: the operations that notify on success.
NotifyDrivers == {"d1"}
NotifyIds == {"x1"}

NextNotify ==
    \/ \E d \in NotifyDrivers, x \in NotifyIds : AcceptCheck(d, x)
    \/ \E r \in BagToSet(inflight) : AcceptUpdate(r)
    \/ \E r \in BagToSet(inflight) : AcceptInc(r)
    \/ \E d \in NotifyDrivers, x \in NotifyIds : StartDelivery(d, x)
    \/ \E d \in NotifyDrivers, x \in NotifyIds : CompleteDelivery(d, x)
    \/ \E valid \in BOOLEAN : CompleteRegistration(valid)
    \/ \E earnType \in EarnTypeInputs, city \in CityInputs : SetupEarnType(earnType, city)
    \/ \E t \in DocTypes : UploadDocument(t)
    \/ CompleteFullRegistration

SpecNotify == InitReg /\ [][NextNotify]_vars

\* The phone verification, from a client that holds no token yet, up to
\* the creation of the driver record.
InitOtp ==
    /\ deliveries \in InitialDeliveries
    /\ \A x \in Deliveries : deliveries[x].status = "upcoming"
    /\ totalDeliveries = [d \in Drivers |-> 0]
    /\ inflight = EmptyBag
    /\ sink = EmptyBag
    /\ oks = EmptyBag
    /\ resp = NoResp
    /\ notify = Quiet
    /\ blobs = {}
    /\ nextBlob = 1
    /\ destroyCalls = {}
    /\ driver = NoRecord
    /\ token = NoToken
    /\ held = {}
    /\ otps = {}
    /\ nextCode = 1
    /\ confirmed = EmptyBag

NextOtp ==
    \/ RegisterPhoneCheck
    \/ \E r \in BagToSet(inflight) : RegisterPhoneDelete(r)
    \/ ResendOtpDelete
    \/ \E r \in BagToSet(inflight) : OtpCreate(r)
    \/ \E right \in BOOLEAN : VerifyOtpFind(right)
    \/ \E r \in BagToSet(inflight) : VerifyOtpDelete(r)
    \/ \E c \in otps : Expire(c)
    \/ \E c \in otps : TtlRemove(c)
    \/ \E valid \in BOOLEAN : CompleteRegistration(valid)

SpecOtp == InitOtp /\ [][NextOtp]_vars

\* The registration steps with document uploads that overlap the other
\* requests of the same driver.
NextRace ==
    \/ \E valid \in BOOLEAN : CompleteRegistration(valid)
    \/ \E earnType \in EarnTypeInputs, city \in CityInputs : SetupEarnType(earnType, city)
    \/ \E t \in DocTypes : UploadDocumentFind(t)
    \/ \E r \in BagToSet(inflight) : UploadDocumentSave(r)
    \/ CompleteFullRegistration

SpecRace == InitReg /\ [][NextRace]_vars

\* getCurrentRegistrationStep on every pair of a stored step and a step
\* claim.
InitStep ==
    /\ deliveries \in InitialDeliveries
    /\ \A x \in Deliveries : deliveries[x].status = "upcoming"
    /\ totalDeliveries = [d \in Drivers |-> 0]
    /\ inflight = EmptyBag
    /\ sink = EmptyBag
    /\ oks = EmptyBag
    /\ resp = NoResp
    /\ notify = Quiet
    /\ blobs = {}
    /\ nextBlob = 1
    /\ destroyCalls = {}
    /\ \E stored \in StepInputs :
         driver = [NoRecord EXCEPT !.exists = TRUE, !.name = TRUE, !.email = TRUE,
                                   !.registrationStep = stored]
    /\ \E claimed \in StepInputs : token = Token(TRUE, claimed, "-")
    /\ held = {token}
    /\ otps = {}
    /\ nextCode = 1
    /\ confirmed = EmptyBag

NextStep == EvaluateStep

SpecStep == InitStep /\ [][NextStep]_vars

\* The lifecycle with drivers who keep calling StartDelivery and
\* CompleteDelivery for their deliveries: a call that can change the
\* delivery is not put off forever.
NextLive ==
    \/ \E d \in Drivers, x \in DeliveryIds : AcceptCheck(d, x)
    \/ \E r \in BagToSet(inflight) : AcceptUpdate(r)
    \/ \E r \in BagToSet(inflight) : AcceptInc(r)
    \/ \E d \in Drivers, x \in DeliveryIds : StartDelivery(d, x)
    \/ \E d \in Drivers, x \in DeliveryIds : CompleteDelivery(d, x)

KeepsCalling ==
    \A d \in Drivers, x \in Deliveries :
        WF_vars(StartDelivery(d, x)) /\ WF_vars(CompleteDelivery(d, x))

SpecLive == Init /\ [][NextLive]_vars /\ KeepsCalling

\* The delivery routes as the registrant's client reaches them, with any
\* token it holds, with a token that does not verify and with none.
NextAuth ==
    \/ \E valid \in BOOLEAN : CompleteRegistration(valid)
    \/ \E valid \in BOOLEAN : Login(valid)
    \/ RemoveDriver
    \/ \E tok \in PresentedTokens, op \in AuthOps :
          \E x \in AuthTargets(op), kind \in AuthKinds(op) : DeliveryRequest(tok, op, x, kind)
    \/ \E r \in BagToSet(inflight) : AcceptUpdate(r)
    \/ \E r \in BagToSet(inflight) : AcceptInc(r)
    \/ \E r \in BagToSet(inflight) : UploadPhotoSave(r)

SpecAuth == InitReg /\ [][NextAuth]_vars

TypeOK ==
    /\ \A x \in Deliveries : deliveries[x].status \in Statuses
    /\ BagCardinality(inflight) <= MaxReq

\* ------------------------------------------------- vocabulary of the claims

ActiveStatuses == {"accepted", "in-transit"}
ClaimedStatuses == {"accepted", "in-transit", "completed"}

ActiveOf(d) ==
    {x \in Deliveries : deliveries[x].driverId = d /\ deliveries[x].status \in ActiveStatuses}

Claimable(x) ==
    /\ x \in Deliveries
    /\ deliveries[x].status = "upcoming"
    /\ deliveries[x].driverId = NoDriver

Owned(d, x, s) ==
    x \in Deliveries /\ deliveries[x].driverId = d /\ deliveries[x].status = s

\* The other documents are untouched.
OnlyChanges(x) == \A y \in Deliveries \ {x} : deliveries'[y] = deliveries[y]

\* Success responses of op on x, over all callers.
OkCount(op, x) ==
    LET n[D \in SUBSET Drivers] ==
          IF D = {} THEN 0
          ELSE LET d == CHOOSE e \in D : TRUE
               IN CopiesIn([op |-> op, d |-> d, x |-> x], oks) + n[D \ {d}]
    IN n[Drivers]

\* Events of a type handed to the sink for delivery x.
Emitted(type, x) == {e \in BagToSet(sink) : e.type = type /\ e.x = x}
EmittedCount(type, x) ==
    LET n[E \in SUBSET Emitted(type, x)] ==
          IF E = {} THEN 0
          ELSE LET e == CHOOSE f \in E : TRUE IN CopiesIn(e, sink) + n[E \ {e}]
    IN n[Emitted(type, x)]

AcceptInFlight(x) == \E r \in BagToSet(inflight) : r.op = "accept" /\ r.x = x

\* ---------------------------------------------------------------------- C1
\* C1: every driver has at most one delivery with driverId = that driver and
\* status in {accepted, in-transit}, in every reachable state (so of N
\* concurrent claims by one driver only one can have succeeded).
C1_SingleActiveDelivery == \A d \in Drivers : Cardinality(ActiveOf(d)) <= 1

\* ---------------------------------------------------------------------- C2
\* C2: of the claims made on a delivery, exactly one call succeeds: never
\* more than one success response, and once the delivery is claimed and no
\* claim on it is still running, one call has answered success, its caller
\* is the delivery's driverId, and the delivery was set to accepted.
C2_ExactlyOneClaimSucceeds ==
    \A x \in Deliveries :
        /\ OkCount("accept", x) <= 1
        /\ (deliveries[x].driverId # NoDriver /\ ~AcceptInFlight(x)) =>
              /\ CopiesIn([op |-> "accept", d |-> deliveries[x].driverId, x |-> x], oks) = 1
              /\ deliveries[x].status \in ClaimedStatuses

\* ---------------------------------------------------------------------- C3
\* C3 as stated: a claim on a delivery that is not upcoming and unclaimed
\* always fails with NotAvailable (and changes nothing).
C3_NotClaimableIsNotAvailable ==
    [][/\ \A d \in Drivers, x \in DeliveryIds :
             (AcceptCheck(d, x) /\ ~Claimable(x) /\ resp' # NoResp) =>
                 resp'.res = "NotAvailable"
       /\ \A r \in BagToSet(inflight) :
             (AcceptUpdate(r) /\ ~Claimable(r.x)) =>
                 (resp'.res = "NotAvailable" /\ UNCHANGED deliveries)]_vars

\* C3 amended: a claim changes X only at its conditional write and only when
\* X is then upcoming and unclaimed; that write sets driverId = caller,
\* status = accepted and acceptedAt together and nothing else.  A claim on
\* any other X changes no delivery and fails: with Conflict when the
\* pre-check finds an active delivery of the caller, with NotAvailable
\* otherwise.
C3_ClaimWrite ==
    [][/\ \A d \in Drivers, x \in DeliveryIds :
             AcceptCheck(d, x) =>
                 /\ UNCHANGED deliveries
                 /\ (ActiveOf(d) # {}) => resp' = Response("accept", d, x, "Conflict")
                 /\ (ActiveOf(d) = {}) => resp' = NoResp
       /\ \A r \in BagToSet(inflight) :
             AcceptUpdate(r) =>
                 IF Claimable(r.x)
                 THEN /\ deliveries'[r.x].driverId = r.d
                      /\ deliveries'[r.x].status = "accepted"
                      /\ deliveries'[r.x].acceptedAt # Unset
                      /\ deliveries'[r.x] =
                            [deliveries[r.x] EXCEPT !.driverId = r.d, !.status = "accepted",
                                                    !.acceptedAt = deliveries'[r.x].acceptedAt]
                      /\ OnlyChanges(r.x)
                 ELSE /\ resp' = Response("accept", r.d, r.x, "NotAvailable")
                      /\ UNCHANGED deliveries
       /\ \A r \in BagToSet(inflight) : AcceptInc(r) => UNCHANGED deliveries]_vars

\* A claim on a delivery that another driver holds was answered NotAvailable.
C3_Witness ==
    \E x \in Deliveries :
        /\ resp = Response("accept", "d2", x, "NotAvailable")
        /\ deliveries[x].driverId = "d1"
        /\ deliveries[x].status = "accepted"

\* ---------------------------------------------------------------------- C4
\* C4: a claim by a driver who has a delivery in {accepted, in-transit} is
\* answered Conflict and changes no delivery, no driver counter, starts no
\* further step and emits nothing.
C4_ConflictChangesNothing ==
    [][\A d \in Drivers, x \in DeliveryIds :
          (AcceptCheck(d, x) /\ ActiveOf(d) # {}) =>
              /\ resp' = Response("accept", d, x, "Conflict")
              /\ UNCHANGED <<deliveries, totalDeliveries, inflight, sink, oks>>]_vars

\* A driver whose delivery is in transit claimed an upcoming, unclaimed
\* delivery and was answered Conflict; the target is still claimable.
C4_Witness ==
    \E d \in Drivers, x \in Deliveries :
        /\ resp = Response("accept", d, x, "Conflict")
        /\ Claimable(x)
        /\ \E y \in Deliveries : Owned(d, y, "in-transit")

\* ---------------------------------------------------------------------- C5
\* C5: a start call succeeds iff the delivery is accepted and owned by the
\* caller; it then sets status = in-transit and startedAt and nothing else.
\* Any other start call is answered InvalidTransition and changes no
\* delivery, so a retry after a successful start does not transition again.
C5_StartIffAcceptedByCaller ==
    [][\A d \in Drivers, x \in DeliveryIds :
          StartDelivery(d, x) =>
              IF Owned(d, x, "accepted")
              THEN /\ resp' = Response("start", d, x, "ok")
                   /\ deliveries'[x].startedAt # Unset
                   /\ deliveries'[x] =
                         [deliveries[x] EXCEPT !.status = "in-transit",
                                               !.startedAt = deliveries'[x].startedAt]
                   /\ OnlyChanges(x)
              ELSE /\ resp' = Response("start", d, x, "InvalidTransition")
                   /\ UNCHANGED deliveries]_vars

\* The owner retried the start of a delivery that is already in transit.
C5_Witness ==
    \E d \in Drivers, x \in Deliveries :
        /\ resp = Response("start", d, x, "InvalidTransition")
        /\ Owned(d, x, "in-transit")
        /\ OkCount("start", x) = 1

\* ---------------------------------------------------------------------- C6
\* C6: a complete call succeeds iff the delivery is in transit and owned by
\* the caller; it then sets status = completed and completedAt and nothing
\* else.  Any other complete call fails, changes no delivery and hands no
\* event to the sink.
C6_CompleteIffInTransitByCaller ==
    [][\A d \in Drivers, x \in DeliveryIds :
          CompleteDelivery(d, x) =>
              IF Owned(d, x, "in-transit")
              THEN /\ resp' = Response("complete", d, x, "ok")
                   /\ deliveries'[x].completedAt # Unset
                   /\ deliveries'[x] =
                         [deliveries[x] EXCEPT !.status = "completed",
                                               !.completedAt = deliveries'[x].completedAt]
                   /\ OnlyChanges(x)
              ELSE /\ resp' = Response("complete", d, x, "InvalidTransition")
                   /\ UNCHANGED <<deliveries, sink>>]_vars

\* The owner tried to complete a delivery that is accepted but not started.
C6_Witness ==
    \E d \in Drivers, x \in Deliveries :
        /\ resp = Response("complete", d, x, "InvalidTransition")
        /\ Owned(d, x, "accepted")
        /\ Emitted("delivery_completed", x) = {}

\* ---------------------------------------------------------------------- C7
StatusChain ==
    {<<"upcoming", "accepted">>, <<"accepted", "in-transit">>, <<"in-transit", "completed">>}

\* C7: in every step the status of a delivery stays or moves one step along
\* upcoming -> accepted -> in-transit -> completed (it never skips a step,
\* never moves back, never leaves completed); a call answered
\* InvalidTransition, NotAvailable or Conflict changes no delivery.
C7_StatusOrder ==
    [][/\ \A x \in Deliveries :
             \/ deliveries'[x].status = deliveries[x].status
             \/ <<deliveries[x].status, deliveries'[x].status>> \in StatusChain
       /\ resp'.res \in {"InvalidTransition", "NotAvailable", "Conflict"} =>
             UNCHANGED deliveries]_vars

\* One delivery went through the whole chain while a start was refused on a
\* delivery nobody has claimed.
C7_Witness ==
    \E x, y \in Deliveries :
        /\ deliveries[x].status = "completed"
        /\ deliveries[y].status = "upcoming"
        /\ resp.op = "start" /\ resp.x = y /\ resp.res = "InvalidTransition"

\* ---------------------------------------------------------------------- C8
\* Each timestamp is present exactly from its own transition on.
C8_TimestampsMatchStatus ==
    \A x \in Deliveries :
        /\ deliveries[x].acceptedAt # Unset <=> deliveries[x].status \in ClaimedStatuses
        /\ deliveries[x].startedAt # Unset <=> deliveries[x].status \in {"in-transit", "completed"}
        /\ deliveries[x].completedAt # Unset <=> deliveries[x].status = "completed"

\* A timestamp that is set keeps its value in the step.
C8_TimestampsKept ==
    \A x \in Deliveries :
        /\ deliveries[x].acceptedAt # Unset => deliveries'[x].acceptedAt = deliveries[x].acceptedAt
        /\ deliveries[x].startedAt # Unset => deliveries'[x].startedAt = deliveries[x].startedAt
        /\ deliveries[x].completedAt # Unset => deliveries'[x].completedAt = deliveries[x].completedAt

\* C8: acceptedAt is set iff the delivery has been claimed, startedAt iff it
\* has been started, completedAt iff it is completed; a timestamp that is
\* set is never changed by any later step (retries, photo uploads and
\* deletions, calls of other drivers).
C8_TimestampsSetOnce == []C8_TimestampsMatchStatus /\ [][C8_TimestampsKept]_vars

\* A completed delivery carries three increasing timestamps and its
\* drop-off photo, right after its escrow photo was deleted.
C8_Witness ==
    \E x \in Deliveries :
        /\ deliveries[x].status = "completed"
        /\ deliveries[x].acceptedAt < deliveries[x].startedAt
        /\ deliveries[x].startedAt < deliveries[x].completedAt
        /\ HasPhoto(deliveries[x], "dropOff") /\ ~HasPhoto(deliveries[x], "escrow")
        /\ resp.op = "delete" /\ resp.x = x /\ resp.res = "ok"

\* ---------------------------------------------------------------------- C9
\* C9: once a delivery has a driver id, no step changes it.
C9_DriverIdKept ==
    [][\A x \in Deliveries :
          deliveries[x].driverId # NoDriver =>
              deliveries'[x].driverId = deliveries[x].driverId]_vars

\* The delivery d1 claimed is completed and still d1's, after the other
\* driver's claim on it was refused and a photo was uploaded.
C9_Witness ==
    \E x \in Deliveries :
        /\ Owned("d1", x, "completed")
        /\ HasPhoto(deliveries[x], "escrow")
        /\ resp = Response("accept", "d2", x, "NotAvailable")

\* --------------------------------------------------------------------- C10
\* C10: a delivery that is not completed has no delivery_completed and no
\* payment_success event; a completed delivery has exactly one
\* delivery_completed event and, when its price is positive, exactly one
\* payment_success event, of amount = price, and none when the price is 0.
C10_CompletionEventsExactlyOnce ==
    \A x \in Deliveries :
        IF deliveries[x].status = "completed"
        THEN /\ EmittedCount("delivery_completed", x) = 1
             /\ EmittedCount("payment_success", x) = (IF deliveries[x].price > 0 THEN 1 ELSE 0)
             /\ \A e \in Emitted("payment_success", x) : e.amount = deliveries[x].price
        ELSE /\ EmittedCount("delivery_completed", x) = 0
             /\ EmittedCount("payment_success", x) = 0

\* --------------------------------------------------------------------- C12
\* C12: no claim, start or complete call applies its transition partially.
\* A call that answers success has its transition in the store; a call that
\* answers a failure has written nothing: once the conditional write of a
\* claim has been applied, the steps that follow it (counter increment,
\* notification) end in a success response whatever their outcome.
C12_NoPartialTransition ==
    [][/\ \A r \in BagToSet(inflight) :
             AcceptUpdate(r) => (resp' = NoResp \/ UNCHANGED deliveries)
       /\ \A r \in BagToSet(inflight) :
             AcceptInc(r) =>
                 /\ resp' = Response("accept", r.d, r.x, "ok")
                 /\ deliveries'[r.x].driverId = r.d
       /\ \A d \in Drivers, x \in DeliveryIds :
             StartDelivery(d, x) =>
                 \/ resp'.res = "ok" /\ Owned(d, x, "accepted") /\ deliveries'[x].status = "in-transit"
                 \/ resp'.res # "ok" /\ UNCHANGED deliveries
       /\ \A d \in Drivers, x \in DeliveryIds :
             CompleteDelivery(d, x) =>
                 \/ resp'.res = "ok" /\ Owned(d, x, "in-transit") /\ deliveries'[x].status = "completed"
                 \/ resp'.res # "ok" /\ UNCHANGED deliveries]_vars

\* --------------------------------------------------------------------- C13
\* Success responses of claims by driver d, over all deliveries.
ClaimsOk(d) ==
    LET n[X \in SUBSET Deliveries] ==
          IF X = {} THEN 0
          ELSE LET x == CHOOSE y \in X : TRUE
               IN CopiesIn([op |-> "accept", d |-> d, x |-> x], oks) + n[X \ {x}]
    IN n[Deliveries]

\* delivery_accepted events handed to the sink for driver d.
AcceptedEvents(d) ==
    LET n[X \in SUBSET Deliveries] ==
          IF X = {} THEN 0
          ELSE LET x == CHOOSE y \in X : TRUE
               IN CopiesIn(Event("delivery_accepted", d, x, 0), sink) + n[X \ {x}]
    IN n[Deliveries]

C14_AvailableIsUpcomingUnclaimed ==
    resp.op = "available" =>
        AvailableDeliveries = {x \in Deliveries : Claimable(x)}

\* --------------------------------------------------------------------- C15
\* C15: GetActiveDelivery(d) returns a delivery iff d has one in {accepted,
\* in-transit}; the delivery it returns is d's and is accepted or in
\* transit; called right after d's delivery was completed it returns none.
C15_ActiveDeliveryOfCaller ==
    [][\A d \in Drivers :
          GetActiveDelivery(d) =>
              /\ resp'.x # NoDelivery <=> ActiveOf(d) # {}
              /\ resp'.x # NoDelivery => resp'.x \in ActiveOf(d)
              /\ (resp.op = "complete" /\ resp.d = d /\ resp.res = "ok") =>
                     resp'.x = NoDelivery]_vars

\* --------------------------------------------------------------------- C16
\* The upload step leaves status, driverId and the timestamps alone.
C16_KeepsLifecycle(x) ==
    /\ deliveries'[x].status = deliveries[x].status
    /\ deliveries'[x].driverId = deliveries[x].driverId
    /\ deliveries'[x].acceptedAt = deliveries[x].acceptedAt
    /\ deliveries'[x].startedAt = deliveries[x].startedAt
    /\ deliveries'[x].completedAt = deliveries[x].completedAt

\* C16: an upload writes a photo record only to a delivery that is then
\* owned by the caller and in transit (drop-off) or accepted or in transit
\* (escrow); an upload on a delivery in any other state or of another
\* driver is answered InvalidState (UploadFailed if the blob store refused
\* the file) and changes no delivery; no upload step changes status,
\* driverId or a timestamp.
C16_PhotoOnlyInPermittedState ==
    [][/\ \A d \in Drivers, x \in DeliveryIds, k \in PhotoKinds :
             UploadPhotoFind(d, x, k) =>
                 /\ UNCHANGED deliveries
                 /\ ~(Matches(x) /\ PhotoFilter(deliveries[x], d, k)) =>
                        resp'.res \in {"InvalidState", "UploadFailed"}
       /\ \A r \in BagToSet(inflight) :
             UploadPhotoSave(r) =>
                 /\ C16_KeepsLifecycle(r.x)
                 /\ OnlyChanges(r.x)
                 /\ deliveries' # deliveries => PhotoFilter(deliveries[r.x], r.d, r.kind)]_vars

\* --------------------------------------------------------------------- C17
\* The photo records that reference a blob the store no longer holds.
DanglingPhotos ==
    {<<x, k>> \in Deliveries \X PhotoKinds :
        HasPhoto(deliveries[x], k) /\ PhotoRef(deliveries[x], k) \notin blobs}

\* The document records that reference a blob the store no longer holds.
DanglingDocuments ==
    {t \in DocTypes : driver.documents[t] # NoBlob /\ driver.documents[t] \notin blobs}

\* C17: when an upload call has answered, whatever the answer, every photo
\* record and every document record references a blob that the store holds.
C17_NoDanglingReference ==
    resp.op \in {"upload", "uploadDocument"} =>
        DanglingPhotos = {} /\ DanglingDocuments = {}

\* --------------------------------------------------------------------- C18
\* The effective step: the later of the stored step and the step claim of
\* the token the client holds, as a position in the step order.
EffectiveStep == StepIndex(GetCurrentRegistrationStep(driver, token.step))

RegistrationOps ==
    {"completeRegistration", "setupEarnType", "uploadDocument", "deleteDocument",
     "completeFullRegistration", "getRegistrationStatus"}

\* C18: no call of CompleteBasicInfo, SetupEarnType, UploadDocument,
\* DeleteDocument, FinalizeRegistration or GetStatus lowers the effective
\* registration step of the driver.
C18_StepNeverDecreases ==
    [][resp'.op \in RegistrationOps => EffectiveStep' >= EffectiveStep]_vars

\* --------------------------------------------------------------------- C19
\* The four gating conditions of the claim.
GateHolds ==
    /\ driver.exists
    /\ driver.name /\ driver.email
    /\ driver.earnType
    /\ driver.city
    /\ \A t \in RequiredDocs : driver.documents[t] # NoBlob

C20_VerifiedMeansCompleted ==
    driver.verified =>
        driver.registrationStep = "completed" /\ MissingDocs(driver) = {}

\* --------------------------------------------------------------------- C11
\* The operation of the last response has persisted its state transition.
C11_Persisted ==
    LET r == resp'
    IN CASE r.op = "accept" ->
              /\ deliveries'[r.x].driverId = r.d
              /\ deliveries'[r.x].status \in ClaimedStatuses
         [] r.op = "start" ->
              /\ deliveries'[r.x].driverId = r.d
              /\ deliveries'[r.x].status = "in-transit"
              /\ deliveries[r.x].status = "accepted"
         [] r.op = "complete" ->
              /\ deliveries'[r.x].driverId = r.d
              /\ deliveries'[r.x].status = "completed"
              /\ deliveries[r.x].status = "in-transit"
         [] r.op = "completeRegistration" ->
              /\ driver'.exists /\ driver'.name /\ driver'.email
              /\ driver'.registrationStep = "basic_info_completed"
         [] r.op = "setupEarnType" ->
              /\ driver'.earnType /\ driver'.city
              /\ driver'.registrationStep = "earn_type_completed"
         [] r.op = "completeFullRegistration" ->
              /\ driver'.verified /\ driver'.registrationStep = "completed"
              /\ token' = SessionToken
         [] OTHER -> FALSE

\* C11: when the sink rejects an event during ClaimDelivery, StartDelivery,
\* CompleteDelivery, CompleteBasicInfo, SetupEarnType or
\* FinalizeRegistration, the operation still reports success and its state
\* transition is persisted.
C11_SinkFailureNeverFails ==
    [][notify'.rejected => resp'.res = "ok" /\ C11_Persisted]_vars

\* The sink rejected registration_completed, and the registrant was
\* finalized all the same, after the driver completed a delivery whose
\* events were handed to the sink.
C11_Witness ==
    /\ notify = Dispatch({"registration_completed"}, TRUE)
    /\ resp = Response("completeFullRegistration", Registrant, "-", "ok")
    /\ driver.verified /\ driver.registrationStep = "completed"
    /\ token = SessionToken
    /\ deliveries["x1"].status = "completed"

\* --------------------------------------------------------------------- C21
\* C21: a successful UploadDocument sets registrationStep to
\* documents_uploading when the effective step (the later of the stored step
\* and the token's claim) precedes documents_uploading, and leaves it
\* unchanged when the effective step is documents_uploading or completed; a
\* failed one leaves it unchanged.
C21_UploadStepOnlyForward ==
    [][resp'.op = "uploadDocument" =>
          driver'.registrationStep =
             IF resp'.res = "ok" /\ EffectiveStep < StepIndex("documents_uploading")
             THEN "documents_uploading"
             ELSE driver.registrationStep]_vars

\* A completed driver uploaded a document again and is still completed.
C21_Witness ==
    /\ resp.op = "uploadDocument" /\ resp.res = "ok"
    /\ driver.registrationStep = "completed"
    /\ driver.documents[resp.x] \in blobs

\* --------------------------------------------------------------------- C22
\* C22: when UploadDocument of type T succeeds for a driver whose record of
\* T references blob X, the record of T then references the new blob Y,
\* which the store holds, the records of the other types are unchanged, and
\* the store was asked to destroy X; the upload succeeds whether or not the
\* store destroyed X.
C22_UploadReplaces ==
    [][(resp'.op = "uploadDocument" /\ resp'.res = "ok") =>
          LET T == resp'.x
              X == driver.documents[T]
              Y == driver'.documents[T]
          IN /\ Y = nextBlob /\ Y \notin blobs /\ Y \in blobs'
             /\ \A u \in DocTypes \ {T} : driver'.documents[u] = driver.documents[u]
             /\ X # NoBlob => X \in destroyCalls' /\ X # Y
             /\ blobs' \ {X} = (blobs \cup {Y}) \ {X}]_vars

\* The second upload of a type succeeded although the store did not
\* destroy the blob of the first, which no record references any more.
C22_Witness ==
    /\ resp.op = "uploadDocument" /\ resp.res = "ok"
    /\ \E X \in destroyCalls :
         /\ X \in blobs
         /\ \A u \in DocTypes : driver.documents[u] # X
    /\ driver.documents[resp.x] \in blobs

\* --------------------------------------------------------------------- C23
\* C23: a code is created only for a phone that belongs to no driver, and
\* after any interleaving of issue calls at most one code is stored for the
\* phone.
C23_CodeIssuance ==
    [][/\ nextCode' # nextCode => ~driver.exists
       /\ Cardinality(otps') <= 1]_vars

\* --------------------------------------------------------------------- C24
\* The stored codes that are not expired.
ValidCodes == {c \in otps : ~c.expired}

\* C24: ConfirmPhoneVerification fails with InvalidCode and issues no token
\* when the submitted code is wrong or no unexpired code is stored, and for
\* each code that was created at most one confirmation succeeds, also when
\* two confirmations run at the same time.
C24_NoReplay ==
    [][/\ \A right \in BOOLEAN :
            (VerifyOtpFind(right) /\ (~right \/ ValidCodes = {})) =>
                resp'.res = "InvalidCode"
       /\ (resp'.op = "verifyOtp" /\ resp'.res = "InvalidCode") =>
            UNCHANGED <<token, held, otps>>
       /\ \A n \in 1..MaxCodes : CopiesIn(n, confirmed') <= 1]_vars

\* --------------------------------------------------------------------- C25
\* C25: CompleteBasicInfo with valid input and an e-mail that no other
\* driver holds succeeds for the driver of the token's id, else of the
\* token's phone: it creates the record when the phone has none and updates
\* the record in place otherwise.
C25_ResolvesByPhone ==
    [][(resp'.op = "completeRegistration" /\ resp'.x \in {"stored", "fresh"}) =>
          /\ resp'.res = "ok"
          /\ driver' = [(IF driver.exists THEN driver ELSE NoRecord) EXCEPT
                           !.exists = TRUE, !.name = TRUE, !.email = TRUE,
                           !.registrationStep = driver'.registrationStep]]_vars

\* --------------------------------------------------------------------- C26
\* C26: CompleteBasicInfo with valid input fails with Conflict exactly when
\* the submitted e-mail belongs to a different driver, and then changes no
\* record; a driver who submits the e-mail of their own record again is not
\* refused, whichever of their tokens they present.
C26_ConflictIffTaken ==
    [][(resp'.op = "completeRegistration" /\ resp'.x # "-") =>
          /\ resp'.res = "Conflict" <=> resp'.x = "taken"
          /\ resp'.res = "Conflict" => UNCHANGED driver]_vars

\* --------------------------------------------------------------------- C27
\* C27: SetupEarnType with an earn type outside {car, scooter, bicycle,
\* truck}, or without earn type or city, answers InvalidInput and leaves the
\* driver record unchanged; with valid input for a stored driver it
\* succeeds, earnType and city are set and the step is at least
\* earn_type_completed.
C27_EarnTypeValidated ==
    [][\A earnType \in EarnTypeInputs, city \in CityInputs :
         SetupEarnType(earnType, city) =>
            IF earnType \in {"car", "scooter", "bicycle", "truck"} /\ city # ""
            THEN driver.exists =>
                    /\ resp'.res = "ok"
                    /\ driver'.earnType /\ driver'.city
                    /\ StepIndex(driver'.registrationStep) >= StepIndex("earn_type_completed")
            ELSE resp'.res = "InvalidInput" /\ UNCHANGED driver]_vars

\* A driver who is uploading documents sent an earn type outside the list:
\* the call was refused and the record is as it was.
C27_Witness ==
    /\ resp = Response("setupEarnType", Registrant, "-", "InvalidInput")
    /\ driver.exists /\ ~driver.earnType /\ ~driver.city
    /\ driver.registrationStep = "documents_uploading"

\* --------------------------------------------------------------------- C28
\* C28: a successful UploadDocument hands exactly one document_uploaded
\* event to the sink, and a failed one hands over none.
C28_DocumentUploadedEmitted ==
    [][resp'.op = "uploadDocument" =>
          notify'.events = IF resp'.res = "ok" THEN {"document_uploaded"} ELSE {}]_vars

\* --------------------------------------------------------------------- C29
\* The milestones of the claim that a driver record satisfies.
C29_Milestones(rec) ==
    {"phone verified"}
    \cup (IF rec.name /\ rec.email THEN {"basic info"} ELSE {})
    \cup (IF rec.earnType /\ rec.city THEN {"earn type and city"} ELSE {})
    \cup (IF \E t \in DocTypes : rec.documents[t] # NoBlob THEN {"document"} ELSE {})
    \cup (IF rec.verified \/ rec.registrationStep = "completed" THEN {"completed"} ELSE {})

\* C29: GetStatus changes no driver, code or delivery record, and the
\* progress it reports is 20 times the number of satisfied milestones, a
\* value of {0, 20, .., 100} that is 100 only for a driver whose
\* registration has been completed.
C29_StatusProgress ==
    [][GetRegistrationStatus =>
          /\ UNCHANGED <<driver, otps, deliveries, totalDeliveries, blobs>>
          /\ resp'.res = "ok" =>
                /\ Progress(driver) \in {20 * n : n \in 0..5}
                /\ Progress(driver) = 20 * Cardinality(C29_Milestones(driver))
                /\ Progress(driver) = 100 =>
                      driver.verified \/ driver.registrationStep = "completed"]_vars

\* --------------------------------------------------------------------- C30
\* C30: the step GetStatus reports is the higher, in the step order, of the
\* stored registrationStep and the step claim of the presented token.
C30_StatusReportsEffectiveStep ==
    [][(GetRegistrationStatus /\ resp'.res = "ok") =>
          StepIndex(resp'.x) =
             Max(StepIndex(driver.registrationStep), StepIndex(token.step))]_vars

\* --------------------------------------------------------------------- C31
\* The answer and the resulting driver record of a step, and what they are
\* when a call succeeds with the record `after` and is refused otherwise.
C31_Gives(ok, refusal, after) ==
    /\ resp'.res = IF ok THEN "ok" ELSE refusal
    /\ driver' = IF ok THEN after ELSE driver

\* C31: whichever of the driver's tokens is presented, with whatever step
\* claim, the answer and the resulting driver record of
\* FinalizeRegistration, SetupEarnType, CompleteBasicInfo and DeleteDocument
\* are determined by the stored driver record and the request body alone;
\* FinalizeRegistration succeeds only when the stored record has name,
\* e-mail, earn type, city and both required documents.
C31_StepClaimAdvisory ==
    [][/\ CompleteFullRegistration =>
             C31_Gives(GateHolds,
                       IF driver.exists THEN "IncompletePrerequisites" ELSE "NotFound",
                       [driver EXCEPT !.verified = TRUE, !.registrationStep = "completed"])
       /\ \A earnType \in EarnTypeInputs, city \in CityInputs :
             SetupEarnType(earnType, city) =>
                LET valid == earnType \in {"car", "scooter", "bicycle", "truck"} /\ city # ""
                IN C31_Gives(valid /\ driver.exists,
                             IF valid THEN "NotFound" ELSE "InvalidInput",
                             [driver EXCEPT !.earnType = TRUE, !.city = TRUE,
                                            !.registrationStep = "earn_type_completed"])
       /\ \A valid \in BOOLEAN :
             CompleteRegistration(valid) =>
                C31_Gives(valid /\ resp'.x # "taken",
                          IF valid THEN "Conflict" ELSE "InvalidInput",
                          [(IF driver.exists THEN driver ELSE NoRecord) EXCEPT
                              !.exists = TRUE, !.name = TRUE, !.email = TRUE,
                              !.registrationStep = "basic_info_completed"])
       /\ \A t \in DocTypes :
             DeleteDocument(t) =>
                C31_Gives(driver.exists /\ driver.documents[t] # NoBlob, "NotFound",
                          [driver EXCEPT !.documents[t] = NoBlob])]_vars

\* --------------------------------------------------------------------- C32
\* C32: whenever the registrant's client has received a session token (type
\* driver), the stored registrationStep is completed.
C32_SessionTokenMeansCompleted ==
    (\E t \in held : t.type = "driver") =>
        driver.exists /\ driver.registrationStep = "completed"

\* --------------------------------------------------------------------- C33
\* The tokens the claim wants refused: none, one that does not verify, a
\* continuation token, and one whose driver is not stored.
C33_Refused(tok) ==
    \/ tok \in {NoToken, ExpiredToken}
    \/ tok.type # "driver"
    \/ ~driver.exists

\* C33: a delivery operation called with no token, with a malformed or
\* expired token, with a continuation token or with the token of a driver
\* who is no longer stored is answered Unauthorized, and no delivery or
\* driver record changes.
C33_FailsClosed ==
    [][\A tok \in {t \in PresentedTokens : C33_Refused(t)}, op \in AuthOps :
         \A x \in AuthTargets(op), kind \in AuthKinds(op) :
            DeliveryRequest(tok, op, x, kind) =>
               /\ resp'.res = "Unauthorized"
               /\ UNCHANGED <<deliveries, totalDeliveries, driver>>]_vars

\* --------------------------------------------------------------------- C34
\* C34: DeleteDocument of type T for a driver who has a record of T
\* succeeds and removes the record, whether or not the blob store destroyed
\* the blob it was asked to destroy; without a record of T it answers
\* NotFound and changes neither the driver nor the blob store; in both cases
\* the records of the other types and the other fields stay as they are.
C34_DeleteDocument ==
    [][\A t \in DocTypes :
         DeleteDocument(t) =>
            /\ IF driver.exists /\ driver.documents[t] # NoBlob
               THEN /\ resp'.res = "ok"
                    /\ driver'.documents[t] = NoBlob
                    /\ driver.documents[t] \in destroyCalls'
               ELSE /\ resp'.res = "NotFound"
                    /\ UNCHANGED <<driver, blobs>>
            /\ \A u \in DocTypes \ {t} : driver'.documents[u] = driver.documents[u]
            /\ driver' = [driver EXCEPT !.documents = driver'.documents]]_vars

\* A record was removed although the store still holds the blob it was
\* asked to destroy, and the record of the other type is still there.
C34_Witness ==
    /\ resp.op = "deleteDocument" /\ resp.res = "ok"
    /\ driver.documents[resp.x] = NoBlob
    /\ \E X \in destroyCalls : X \in blobs
    /\ \E u \in DocTypes \ {resp.x} : driver.documents[u] # NoBlob

\* --------------------------------------------------------------------- C35
\* C35: while a document upload of the driver is on its way, no write of
\* SetupEarnType or FinalizeRegistration lowers the stored
\* registrationStep, and the write of the upload itself does not lower it
\* either: a driver who was finalized after the upload read the record
\* stays completed.
C35_StepWritesSafe ==
    [][(/\ Pending("uploadDocument", "save") # {}
        /\ resp'.op \in {"uploadDocument", "setupEarnType", "completeFullRegistration"}) =>
          /\ StepIndex(driver'.registrationStep) >= StepIndex(driver.registrationStep)
          /\ (driver.verified /\ driver.registrationStep = "completed") =>
                driver'.registrationStep = "completed"]_vars

\* --------------------------------------------------------------------- C36
\* The fixed order of the steps; a value that is no step has rank 0.
C36_Rank(s) ==
    CASE s = "verified_phone" -> 1
      [] s = "basic_info_completed" -> 2
      [] s = "earn_type_completed" -> 3
      [] s = "documents_uploading" -> 4
      [] s = "completed" -> 5
      [] OTHER -> 0

\* The function with its arguments as two steps.
C36_Effective(storedStep, claimedStep) ==
    GetCurrentRegistrationStep([driver EXCEPT !.registrationStep = storedStep], claimedStep)

\* C36: for a stored step and a claimed step that are each one of the five
\* steps, absent or unrecognised, the result is the later of the two in the
\* order of the steps, the same with the arguments exchanged, the step
\* itself when both are the same step, and verified_phone when neither is a
\* step.
C36_EffectiveStepIsMax ==
    resp.op = "getCurrentRegistrationStep" =>
        LET a == driver.registrationStep
            b == token.step
            r == resp.x
        IN /\ r \in Steps
           /\ C36_Rank(r) = Max(Max(C36_Rank(a), C36_Rank(b)), 1)
           /\ r = C36_Effective(b, a)
           /\ a = b /\ a \in Steps => r = a
           /\ C36_Effective(r, r) = r
           /\ (a \notin Steps /\ b \notin Steps) => r = "verified_phone"

\* The token claims a later step than the one that is stored, and the
\* result is the claimed one.
C36_Witness ==
    /\ resp.op = "getCurrentRegistrationStep"
    /\ driver.registrationStep = "basic_info_completed"
    /\ token.step = "documents_uploading"
    /\ resp.x = "documents_uploading"

\* --------------------------------------------------------------------- C37
\* C37: for every stored driver the list of allowed actions has
\* complete_basic_info iff name or e-mail is missing, setup_earn_type iff
\* earn type or city is missing, upload_documents iff no document is
\* recorded, and complete_registration iff FinalizeRegistration would
\* succeed, that is iff name, e-mail, earn type, city and both required
\* documents are there.
C37_AllowedActions ==
    driver.exists =>
        LET actions == GetNextAllowedActions(driver)
        IN /\ "complete_basic_info" \in actions <=> (~driver.name \/ ~driver.email)
           /\ "setup_earn_type" \in actions <=> (~driver.earnType \/ ~driver.city)
           /\ "upload_documents" \in actions <=>
                 (\A t \in DocTypes : driver.documents[t] = NoBlob)
           /\ "complete_registration" \in actions <=> GateHolds

\* --------------------------------------------------------------------- C38
\* C38: a delivery has a driver id iff its status is accepted, in-transit
\* or completed.
C38_DriverIffClaimed ==
    \A x \in Deliveries :
        deliveries[x].driverId # NoDriver <=>
            deliveries[x].status \in {"accepted", "in-transit", "completed"}

\* One driver has completed a delivery and holds a second one, which is
\* accepted, while a claim of the other driver is on its way.
C38_Witness ==
    /\ Owned("d1", "x1", "completed")
    /\ Owned("d1", "x2", "accepted")
    /\ \E r \in Pending("accept", "update") : r.d = "d2"

\* --------------------------------------------------------------------- C39
\* C39: the save of a photo upload leaves status and completedAt of the
\* delivery as they are, and it writes no photo record to a delivery whose
\* status is completed by then, as when CompleteDelivery has committed after
\* the upload read the delivery in transit.
C39_PhotoRaceKeepsCompletion ==
    [][\A r \in BagToSet(inflight) :
         UploadPhotoSave(r) =>
            /\ deliveries'[r.x].status = deliveries[r.x].status
            /\ deliveries'[r.x].completedAt = deliveries[r.x].completedAt
            /\ deliveries[r.x].status = "completed" =>
                  /\ deliveries'[r.x].dropOff = deliveries[r.x].dropOff
                  /\ deliveries'[r.x].escrow = deliveries[r.x].escrow]_vars

\* --------------------------------------------------------------------- C40
\* C40: when a CompleteDelivery of a driver succeeds, the driver has no
\* accepted or in-transit delivery left; the claim of a driver without one
\* is not refused by the active-delivery check, and it is written when the
\* delivery is still upcoming and unclaimed; and with drivers who keep
\* calling StartDelivery and CompleteDelivery every claimed delivery is
\* completed in the end.
C40_NeverBlocked ==
    /\ [][/\ \A d \in Drivers :
                (resp'.op = "complete" /\ resp'.d = d /\ resp'.res = "ok") =>
                    ActiveOf(d)' = {}
          /\ \A d \in Drivers, x \in DeliveryIds :
                (AcceptCheck(d, x) /\ ActiveOf(d) = {}) => resp'.res # "Conflict"
          /\ \A r \in BagToSet(inflight) :
                (AcceptUpdate(r) /\ Claimable(r.x)) => Owned(r.d, r.x, "accepted")']_vars
    /\ \A x \in Deliveries :
          (deliveries[x].status \in {"accepted", "in-transit"})
              ~> (deliveries[x].status = "completed")

====
